---- MODULE Spec2Model ----
(***************************************************************************)
(* Model of the feda feedback-classification pipeline:                     *)
(*   app/backend/models/categories.py      Categories.CATEGORIES           *)
(*   app/backend/models/llm_models.py      FeedbackResponse (pydantic v1)  *)
(*   app/backend/llm_service.py            LLMService                      *)
(*   app/backend/models/feedback_models.py FeedbackItem, ProcessedFeedback *)
(*   app/backend/database_service.py       DatabaseService                 *)
(*   app/backend/process_feedback_service.py FeedbackProcessor             *)
(*                                                                         *)
(* Python strings are TLA+ strings (f-strings are \o).  An optional value  *)
(* (a dict key that may be absent) is a sequence of length 0 or 1.         *)
(***************************************************************************)
EXTENDS Integers, Sequences, FiniteSets, TLC

VARIABLES
    pc,              \* position of FeedbackProcessor.process_feedback_batch
    feedback_items,  \* its argument: the list of input rows (dicts)
    feedback_batch,  \* the FeedbackItem list built from the rows
    completion,      \* what the LLM endpoint did for this call
    processed_batch, \* what LLMService.process_feedback_batch returned
    zip_index,       \* position of the zip loop (1-based)
    results,         \* the ProcessedFeedback list being built
    returned,        \* the list of dicts handed back to the caller
    escaped,         \* the exception that left process_feedback_batch, if any
    table,           \* rows inserted in the processed_feedback table
    save_attempts,   \* every call of save_processed_feedback, in order
    clock,           \* datetime.now(), as a counter
    raw,             \* validator run: the raw object given to FeedbackResponse
    validated,       \* validator run: what FeedbackResponse on raw produced
    prompt,          \* completion client: the prompt of get_response_safe
    attempt_outcomes,\* completion client: what the endpoint does on each request
    attempts,        \* completion client: requests sent to the endpoint
    call_result,     \* completion client: what the call returned or raised
    requested,       \* FeedbackProcessor(batch_size=requested)
    batch_size,      \* FeedbackProcessor.batch_size, once constructed
    slider,          \* main.py: the value of the "Batch Size" slider
    total_items,     \* main.py: len(feedback_data)
    main_i,          \* main.py: the index i of the batch loop
    request_sizes,   \* number of texts carried by each LLM request, in order
    in_flight,       \* LLM requests of the run that have not come back yet
    all_feedbacks,   \* analyze_common_issues: its argument, feedbacks
    chunk_start,     \* analyze_common_issues: the index i of its loop
    chunk_log,       \* analyze_common_issues: what happened to each chunk
    sent_batches,    \* analyze_common_issues: the texts of each LLM request
    category_analysis \* analyze_common_issues: the counts being built

vars == <<pc, feedback_items, feedback_batch, completion, processed_batch,
          zip_index, results, returned, escaped, table, save_attempts, clock,
          raw, validated, prompt, attempt_outcomes, attempts, call_result,
          requested, batch_size, slider, total_items, main_i, request_sizes,
          in_flight,
          all_feedbacks, chunk_start, chunk_log, sent_batches,
          category_analysis>>

pipeline_vars == <<pc, feedback_items, feedback_batch, completion,
                   processed_batch, zip_index, results, returned, escaped,
                   table, save_attempts, clock>>

validator_vars == <<raw, validated>>

client_vars == <<prompt, attempt_outcomes, attempts, call_result>>

processor_vars == <<requested, batch_size>>

main_vars == <<slider, total_items, main_i, request_sizes, in_flight>>

analyze_vars == <<all_feedbacks, chunk_start, chunk_log, sent_batches,
                  category_analysis>>

other_vars == <<client_vars, processor_vars, main_vars, analyze_vars>>

(***************************************************************************)
(* Bounds of the model.                                                    *)
(***************************************************************************)
\* longest list of input rows handed to process_feedback_batch
MaxItems == 2
\* longest JSON array the LLM answers with
MaxResults == 2

(***************************************************************************)
(* Small helpers.                                                          *)
(***************************************************************************)
None == <<>>

Some(v) == <<v>>

Range(s) == {s[i] : i \in 1..Len(s)}

SeqsUpTo(S, n) == UNION {[1..k -> S] : k \in 0..n}

Min(a, b) == IF a <= b THEN a ELSE b

\* Python's `sub in s` for strings
Contains(s, sub) ==
    \E i \in 1..(Len(s) - Len(sub) + 1) : SubSeq(s, i, i + Len(sub) - 1) = sub

(***************************************************************************)
(* categories.py: the taxonomy.  A category is the ordered list of its     *)
(* subcategory groups (dict order), each with its ordered list of tags.    *)
(***************************************************************************)
Group(name, tags) == [group |-> name, tags |-> tags]

CATEGORIES ==
    ("Bug & Issues" :> <<
        Group("UI/UX Bugs", <<"display_error", "layout_issue", "responsive_bug", "visual_glitch">>),
        Group("Functional Bugs", <<"crash", "data_loss", "performance_lag", "feature_malfunction">>),
        Group("Authentication Bugs", <<"login_error", "session_issue", "access_denied", "token_expired">>),
        Group("Payment Bugs", <<"transaction_fail", "pricing_error", "checkout_issue", "refund_problem">>),
        Group("Integration Bugs", <<"api_error", "sync_fail", "third_party_issue", "connection_error">>),
        Group("Security Bugs", <<"vulnerability", "data_breach", "authentication_bypass", "injection_risk">>) >>)
    @@ ("Feature Requests" :> <<
        Group("New Features", <<"new_functionality", "additional_option", "new_integration", "new_tool">>),
        Group("Enhancements", <<"improvement", "optimization", "better_ui", "workflow_enhancement">>),
        Group("Customization", <<"personalization", "configuration", "theming", "user_preference">>),
        Group("Integration", <<"api_feature", "third_party", "external_service", "data_sync">>) >>)
    @@ ("Performance" :> <<
        Group("Speed Issues", <<"slow_loading", "response_time", "lag", "bottleneck">>),
        Group("Resource Usage", <<"high_cpu", "memory_leak", "battery_drain", "storage_issue">>),
        Group("Scalability", <<"load_handling", "concurrent_users", "data_volume", "traffic_spike">>),
        Group("Optimization", <<"efficiency", "resource_optimization", "caching", "performance_tuning">>) >>)
    @@ ("User Satisfaction" :> <<
        Group("Positive Feedback", <<"praise", "appreciation", "satisfaction", "endorsement">>),
        Group("Complaints", <<"frustration", "dissatisfaction", "annoyance", "disappointment">>),
        Group("Suggestions", <<"recommendation", "improvement_idea", "user_request", "feedback">>) >>)
    @@ ("App Experience" :> <<
        Group("Usability", <<"ease_of_use", "user_friendly", "intuitive", "accessibility">>),
        Group("Content", <<"ads", "pricing", "features", "information">>),
        Group("Compatibility", <<"device_support", "version_issues", "platform_specific", "compatibility_problem">>) >>)
    @@ ("Uncategorized" :> <<
        Group("General Comments", <<"general_feedback", "comment", "statement", "observation">>),
        Group("Unclear Feedback", <<"ambiguous", "unclear", "incomplete", "unspecific">>),
        Group("Other", <<"miscellaneous", "unclassified", "other", "unknown">>) >>)

\* Categories.CATEGORIES.keys()
CategoryKeys == DOMAIN CATEGORIES

\* Categories.CATEGORIES[category].keys()
GroupNames(category) == {g.group : g \in Range(CATEGORIES[category])}

\* every tag nested under some group of the category
NestedTags(category) == UNION {Range(g.tags) : g \in Range(CATEGORIES[category])}

(***************************************************************************)
(* llm_models.py: FeedbackResponse.  A field validation yields             *)
(* [ok, v, err, fatal]: ok with the value v, or an error message; fatal    *)
(* marks an exception pydantic does not collect (it leaves the constructor *)
(* at once).                                                               *)
(***************************************************************************)
\* a JSON scalar as the LLM wrote it: a string or a number
JStr(s) == [t |-> "str", s |-> s]

JNum(s) == [t |-> "num", s |-> s]

FieldOk(v) == [ok |-> TRUE, v |-> v, err |-> "", fatal |-> FALSE]

FieldErr(dummy, msg) == [ok |-> FALSE, v |-> dummy, err |-> msg, fatal |-> FALSE]

FieldFatal(dummy, msg) == [ok |-> FALSE, v |-> dummy, err |-> msg, fatal |-> TRUE]

\* class FeedbackSentiment(str, Enum)
FeedbackSentiment == {"positive", "negative", "neutral"}

\* str.lower() on the strings the model uses
Lower(s) ==
    CASE s = "GREAT" -> "great"
      [] s = "Bug" -> "bug"
      [] s = "Positive" -> "positive"
      [] OTHER -> s

\* sentiment_mapping.get(key, 'neutral')
sentiment_mapping(key) ==
    CASE key \in {"positive", "praise", "good", "great"} -> "positive"
      [] key \in {"negative", "bad", "issue", "problem", "bug"} -> "negative"
      [] key \in {"neutral", "suggestion", "feature_request", "request"} -> "neutral"
      [] OTHER -> "neutral"

\* @validator('sentiment', pre=True): a str is mapped, anything else returned as is
validate_sentiment(v) ==
    IF v.t = "str" THEN JStr(sentiment_mapping(Lower(v.s))) ELSE v

\* the sentiment field, the variant declared as a plain str whose mapping falls
\* back to the value itself: an unmapped string passes through
SentimentField_PlainStr(rawv) ==
    IF rawv = None THEN FieldErr("", "sentiment: field required")
    ELSE IF rawv[1].t = "str"
         THEN LET key == Lower(rawv[1].s)
              IN FieldOk(IF key \in {"positive", "praise", "good", "great", "negative",
                                     "bad", "issue", "problem", "bug", "neutral",
                                     "suggestion", "feature_request", "request"}
                         THEN sentiment_mapping(key) ELSE key)
         ELSE FieldOk(rawv[1].s)

\* field sentiment: FeedbackSentiment, required; pre-validator, then the enum
SentimentField(rawv) ==
    IF rawv = None THEN FieldErr("", "sentiment: field required")
    ELSE LET v == validate_sentiment(rawv[1])
         IN IF v.t = "str" /\ v.s \in FeedbackSentiment
            THEN FieldOk(v.s)
            ELSE FieldErr("", "sentiment: value is not a valid enumeration member")

\* category_mapping.get(category, category)
category_mapping(category) ==
    CASE category \in {"Bug", "Bugs"} -> "Bug & Issues"
      [] category \in {"Feature", "Features"} -> "Feature Requests"
      [] category \in {"Performance Issues", "Performance Problems"} -> "Performance"
      [] OTHER -> category

\* @validator('category')
validate_category(category) ==
    LET normalized_category == category_mapping(category)
    IN IF normalized_category \notin CategoryKeys /\ normalized_category # "Error"
       THEN FieldErr("", "category: Invalid category: " \o category)
       ELSE FieldOk(normalized_category)

\* field category: str, required
CategoryField(rawv) ==
    IF rawv = None THEN FieldErr("", "category: field required")
    ELSE validate_category(rawv[1])

\* the first group, in dict order, whose tags hold the subcategory (lines 90-92)
FirstGroupWith(groups, subcategory) ==
    LET hits == {i \in 1..Len(groups) : subcategory \in Range(groups[i].tags)}
    IN groups[CHOOSE i \in hits : \A j \in hits : i <= j].group

\* @validator('subcategory'), the variant whose valid set holds the nested tags
\* only: a group name of the category is replaced like an unknown subcategory
validate_subcategory_TagsOnly(subcategory, category) ==
    IF category = Some("Error") THEN FieldOk(subcategory)
    ELSE
      LET known == category # None /\ category[1] \in CategoryKeys
          valid_subcategories ==
              IF known THEN NestedTags(category[1]) ELSE {}
      IN IF subcategory \notin valid_subcategories
         THEN IF ~known
              THEN FieldFatal("", "None")
              ELSE IF \E g \in Range(CATEGORIES[category[1]]) : subcategory \in Range(g.tags)
              THEN FieldOk(FirstGroupWith(CATEGORIES[category[1]], subcategory))
              ELSE IF category[1] = "Performance" THEN FieldOk("Speed Issues")
              ELSE IF category[1] = "Bug & Issues" THEN FieldOk("UI/UX Bugs")
              ELSE IF category[1] = "Feature Requests" THEN FieldOk("New Features")
              ELSE FieldOk(subcategory)
         ELSE FieldOk(subcategory)

\* @validator('subcategory'); category is values.get('category'): None when the
\* category field did not validate
validate_subcategory(subcategory, category) ==
    IF category = Some("Error") THEN FieldOk(subcategory)
    ELSE
      LET known == category # None /\ category[1] \in CategoryKeys
          valid_subcategories ==
              IF known THEN GroupNames(category[1]) \cup NestedTags(category[1])
              ELSE {}
      IN IF subcategory \notin valid_subcategories
         THEN IF ~known
              THEN FieldFatal("", "None")       \* Categories.CATEGORIES[None]: KeyError
              ELSE IF \E g \in Range(CATEGORIES[category[1]]) : subcategory \in Range(g.tags)
              THEN FieldOk(FirstGroupWith(CATEGORIES[category[1]], subcategory))
              ELSE IF category[1] = "Performance" THEN FieldOk("Speed Issues")
              ELSE IF category[1] = "Bug & Issues" THEN FieldOk("UI/UX Bugs")
              ELSE IF category[1] = "Feature Requests" THEN FieldOk("New Features")
              ELSE FieldOk(subcategory)
         ELSE FieldOk(subcategory)

\* field subcategory: str, required
SubcategoryField(rawv, category) ==
    IF rawv = None THEN FieldErr("", "subcategory: field required")
    ELSE validate_subcategory(rawv[1], category)

\* @validator('details', pre=True); category is values.get('category', 'Uncategorized')
ensure_details(v, category) ==
    IF Len(v) = 0
    THEN LET c == IF category = None THEN "Uncategorized" ELSE category[1]
         IN IF c = "Uncategorized" THEN <<"general_feedback">>
            ELSE IF c = "User Satisfaction" THEN <<"feedback">>
            ELSE IF c = "App Experience" THEN <<"user_feedback">>
            ELSE <<"unspecified">>
    ELSE v

\* field details: List[str], default_factory ["general_feedback"] (the validator
\* does not run on the default)
DetailsField(rawv, category) ==
    IF rawv = None THEN FieldOk(<<"general_feedback">>)
    ELSE FieldOk(ensure_details(rawv[1], category))

\* Field(..., min_length=10, max_length=200)
MIN_SUMMARY_LENGTH == 10

MAX_SUMMARY_LENGTH == 200

\* field summary: str, required, length-constrained
SummaryField(rawv) ==
    IF rawv = None THEN FieldErr("", "summary: field required")
    ELSE IF Len(rawv[1]) < MIN_SUMMARY_LENGTH
    THEN FieldErr("", "summary: ensure this value has at least 10 characters")
    ELSE IF Len(rawv[1]) > MAX_SUMMARY_LENGTH
    THEN FieldErr("", "summary: ensure this value has at most 200 characters")
    ELSE FieldOk(rawv[1])

\* a result dict of the classifier
Result(sentiment, category, subcategory, details, summary) ==
    [sentiment |-> sentiment, category |-> category, subcategory |-> subcategory,
     details |-> details, summary |-> summary]

NoResult == Result("", "", "", <<>>, "")

JoinErrors(fields) ==
    LET F[i \in 0..Len(fields)] ==
          IF i = 0 THEN ""
          ELSE F[i - 1] \o (IF fields[i].ok THEN "" ELSE fields[i].err \o "; ")
    IN F[Len(fields)]

\* FeedbackResponse on raw.dict(): the fields validate in declaration order, each
\* validator seeing the earlier fields that validated; [ok, dict, err]
FeedbackResponse(r) ==
    LET s   == SentimentField(r.sentiment)
        c   == CategoryField(r.category)
        cv  == IF c.ok THEN Some(c.v) ELSE None
        sub == SubcategoryField(r.subcategory, cv)
        d   == DetailsField(r.details, cv)
        sm  == SummaryField(r.summary)
    IN IF sub.fatal
       THEN [ok |-> FALSE, dict |-> NoResult, err |-> sub.err]
       ELSE IF s.ok /\ c.ok /\ sub.ok /\ d.ok /\ sm.ok
       THEN [ok |-> TRUE, dict |-> Result(s.v, c.v, sub.v, d.v, sm.v), err |-> ""]
       ELSE [ok |-> FALSE, dict |-> NoResult,
             err |-> "validation errors for FeedbackResponse: "
                     \o JoinErrors(<<s, c, sub, d, sm>>)]

(***************************************************************************)
(* llm_service.py: LLMService.                                             *)
(*                                                                         *)
(* A feedback text is a Python value: a str, or (from a numeric dataframe  *)
(* column) a numpy.int64, which json.dumps cannot serialise.               *)
(***************************************************************************)
Text(s) == [t |-> "str", s |-> s]

Int64(s) == [t |-> "int64", s |-> s]

\* json.dumps(feedbacks, indent=2) succeeds (line 148, outside the try)
Serializable(feedbacks) == \A i \in 1..Len(feedbacks) : feedbacks[i].t = "str"

\* the raw object of one array element; every key may be absent
RawObject(sentiment, category, subcategory, details, summary) ==
    [sentiment |-> sentiment, category |-> category, subcategory |-> subcategory,
     details |-> details, summary |-> summary]

EmptyObject == RawObject(None, None, None, None, None)

\* one item met when iterating the parsed JSON value: a dict, or a str
ObjectElem(obj) == [t |-> "object", obj |-> obj]

StringElem == [t |-> "string", obj |-> EmptyObject]

\* a parsed JSON document with what `for result in results` yields for it: the
\* elements of an array, the keys of an object, the characters of a string
JsonArray(elems) == [t |-> "array", items |-> elems]

JsonObject(nkeys) == [t |-> "object", items |-> [i \in 1..nkeys |-> StringElem]]

JsonString(nchars) == [t |-> "string", items |-> [i \in 1..nchars |-> StringElem]]

JsonNumber == [t |-> "number", items |-> <<>>]

JsonNull == [t |-> "null", items |-> <<>>]

\* str(e) of the TypeError `for result in results` raises on a number or None
NotIterable(v) ==
    "'" \o (IF v.t = "number" THEN "int" ELSE "NoneType") \o "' object is not iterable"

\* completion.choices[0].message.content: the text of the answer
Content(kind, value) == [kind |-> kind, value |-> value]

\* what the endpoint does with one request: it raises, or answers with a content
Raises(reason) == [kind |-> "raise", reason |-> reason, content |-> Content("none", JsonNull)]

Answers(content) == [kind |-> "answer", reason |-> "", content |-> content]

NotCalled == [kind |-> "not_called", reason |-> "", content |-> Content("none", JsonNull)]

\* a call that returns a value or raises
Returned(v) == [raised |-> FALSE, v |-> v, exc |-> ""]

Raised(dummy, exc) == [raised |-> TRUE, v |-> dummy, exc |-> exc]

\* _create_chat_completion: the content of the first choice; an exception is
\* logged and re-raised
create_chat_completion(outcome) ==
    IF outcome.kind = "raise"
    THEN Raised(Content("none", JsonNull), outcome.reason)
    ELSE Returned(outcome.content)

\* json.loads(response): only a bare JSON text parses
json_loads(response) ==
    CASE response.kind = "json" -> Returned(response.value)
      [] response.kind = "none" ->
           Raised(JsonNull, "the JSON object must be str, bytes or bytearray, not NoneType")
      [] OTHER -> Raised(JsonNull, "Expecting value: line 1 column 1 (char 0)")

\* lines 175-181: the result standing in for an element that failed validation
ValidationErrorResult(e) ==
    Result("neutral", "Error", "Validation Error", <<"error_processing">>,
           "Error validating feedback: " \o e)

\* lines 189-195: the result standing in for a text of a failed call
ProcessingErrorResult(e) ==
    Result("neutral", "Error", "Processing Error", <<"error_processing">>,
           "Error processing feedback: " \o e)

\* lines 170-181: one iteration of the validation loop
ValidateResult(result) ==
    IF result.t # "object"
    THEN ValidationErrorResult("FeedbackResponse() argument after ** must be a mapping, not "
                               \o (IF result.t = "string" THEN "str" ELSE "int"))
    ELSE LET validated_result == FeedbackResponse(result.obj)
         IN IF validated_result.ok THEN validated_result.dict
            ELSE ValidationErrorResult(validated_result.err)

\* lines 185-197: one error result per feedback
ErrorResults(feedbacks, e) == [i \in 1..Len(feedbacks) |-> ProcessingErrorResult(e)]

\* LLMService.process_feedback_batch, the variant whose validation loop has no
\* handler of its own: a failing element fails the whole call
LLMService_process_feedback_batch_NoElementHandler(feedbacks, outcome) ==
    LET response == create_chat_completion(outcome)
        parsed == json_loads(response.v)
        bad == {i \in 1..Len(parsed.v.items) :
                   parsed.v.items[i].t # "object" \/ ~FeedbackResponse(parsed.v.items[i].obj).ok}
    IN IF ~Serializable(feedbacks)
       THEN Raised(<<>>, "Object of type int64 is not JSON serializable")
       ELSE IF response.raised THEN Returned(ErrorResults(feedbacks, response.exc))
       ELSE IF parsed.raised THEN Returned(ErrorResults(feedbacks, parsed.exc))
       ELSE IF parsed.v.t \notin {"array", "object", "string"}
       THEN Returned(ErrorResults(feedbacks, NotIterable(parsed.v)))
       ELSE IF bad # {} THEN Returned(ErrorResults(feedbacks, "validation error"))
       ELSE Returned([i \in 1..Len(parsed.v.items) |-> ValidateResult(parsed.v.items[i])])

\* LLMService.process_feedback_batch, the variant whose outer handler returns a
\* single error result whatever the number of feedbacks
LLMService_process_feedback_batch_OneError(feedbacks, outcome) ==
    LET response == create_chat_completion(outcome)
        parsed == json_loads(response.v)
    IN IF ~Serializable(feedbacks)
       THEN Raised(<<>>, "Object of type int64 is not JSON serializable")
       ELSE IF response.raised THEN Returned(<<ProcessingErrorResult(response.exc)>>)
       ELSE IF parsed.raised THEN Returned(<<ProcessingErrorResult(parsed.exc)>>)
       ELSE IF parsed.v.t \notin {"array", "object", "string"}
       THEN Returned(<<ProcessingErrorResult(NotIterable(parsed.v))>>)
       ELSE Returned([i \in 1..Len(parsed.v.items) |-> ValidateResult(parsed.v.items[i])])

\* LLMService.process_feedback_batch, the variant whose outer handler drops the
\* exception text from the summary
LLMService_process_feedback_batch_NoReason(feedbacks, outcome) ==
    LET response == create_chat_completion(outcome)
        parsed == json_loads(response.v)
    IN IF ~Serializable(feedbacks)
       THEN Raised(<<>>, "Object of type int64 is not JSON serializable")
       ELSE IF response.raised \/ parsed.raised
               \/ parsed.v.t \notin {"array", "object", "string"}
       THEN Returned(ErrorResults(feedbacks, ""))
       ELSE Returned([i \in 1..Len(parsed.v.items) |-> ValidateResult(parsed.v.items[i])])

\* LLMService.process_feedback_batch(feedbacks): the prompt is built outside the
\* try (a text json.dumps rejects raises to the caller); inside it, one
\* completion call, json.loads, then the validation loop over whatever the parsed
\* value yields; any exception there gives one Processing Error per feedback
LLMService_process_feedback_batch(feedbacks, outcome) ==
    LET response == create_chat_completion(outcome)
        parsed == json_loads(response.v)
    IN IF ~Serializable(feedbacks)
       THEN Raised(<<>>, "Object of type int64 is not JSON serializable")
       ELSE IF response.raised THEN Returned(ErrorResults(feedbacks, response.exc))
       ELSE IF parsed.raised THEN Returned(ErrorResults(feedbacks, parsed.exc))
       ELSE IF parsed.v.t \notin {"array", "object", "string"}
       THEN Returned(ErrorResults(feedbacks, NotIterable(parsed.v)))
       ELSE Returned([i \in 1..Len(parsed.v.items) |-> ValidateResult(parsed.v.items[i])])

(***************************************************************************)
(* feedback_models.py: FeedbackItem and ProcessedFeedback.                 *)
(***************************************************************************)
\* an input row: a dict whose 'feedback' and 'email' keys may be absent
Row(feedback, email) == [feedback |-> feedback, email |-> email]

\* item.get('email', '')
GetEmail(item) == IF item.email = None THEN "" ELSE item.email[1]

\* FeedbackItem(text=item['feedback'], email=item.get('email', ''))
FeedbackItem(item) == [text |-> item.feedback[1], email |-> GetEmail(item)]

\* ProcessedFeedback(...) as built at lines 65-74 of process_feedback_service.py;
\* to_dict() keeps the same eight fields
ProcessedFeedback(feedback_item, processed_result, now) ==
    [email |-> feedback_item.email,
     original_feedback |-> feedback_item.text,
     sentiment |-> processed_result.sentiment,
     category |-> processed_result.category,
     subcategory |-> processed_result.subcategory,
     details |-> processed_result.details,
     summary |-> processed_result.summary,
     created_at |-> now]

\* ProcessedFeedback.create_error_response(feedback_item, error_message)
create_error_response(feedback_item, error_message, now) ==
    [email |-> feedback_item.email,
     original_feedback |-> feedback_item.text,
     sentiment |-> "neutral",
     category |-> "Error",
     subcategory |-> "Processing Error",
     details |-> <<"error_processing">>,
     summary |-> "Error processing feedback: " \o error_message,
     created_at |-> now]

(***************************************************************************)
(* database_service.py: DatabaseService.save_processed_feedback.  The      *)
(* insert raises, or it is executed and answers with the inserted rows,    *)
(* or it is executed and answers with no row (result.data[0] then raises). *)
(***************************************************************************)
SaveOutcomes == {"inserted", "insert_raises", "inserted_no_data"}

\* [raised, exc, inserted]: the exception re-raised at line 67, and whether the
\* row reached the table
save_processed_feedback(outcome) ==
    CASE outcome = "inserted" -> [raised |-> FALSE, exc |-> "", inserted |-> TRUE]
      [] outcome = "insert_raises" ->
           [raised |-> TRUE, exc |-> "Connection refused", inserted |-> FALSE]
      [] OTHER -> [raised |-> TRUE, exc |-> "list index out of range", inserted |-> TRUE]

(***************************************************************************)
(* process_feedback_service.py: FeedbackProcessor.process_feedback_batch,  *)
(* one action per stretch of code between two awaited external calls.      *)
(***************************************************************************)
HasFeedback(item) == item.feedback # None

\* lines 84-93: the handler of the outer try: one error row per input item,
\* rebuilt from the raw rows (item['feedback'] raises KeyError again for a row
\* that lacks the key, and that exception leaves the method)
BatchHandler(e) ==
    IF \A i \in 1..Len(feedback_items) : HasFeedback(feedback_items[i])
    THEN LET rows == [i \in 1..Len(feedback_items) |->
                        create_error_response(FeedbackItem(feedback_items[i]),
                                              "Batch processing error: " \o e,
                                              clock + i - 1)]
         IN /\ results' = results \o rows
            /\ returned' = results \o rows      \* line 95
            /\ clock' = clock + Len(feedback_items)
            /\ pc' = "done"
            /\ UNCHANGED escaped
    ELSE /\ escaped' = Some("KeyError: 'feedback'")
         /\ pc' = "raised"
         /\ UNCHANGED <<results, returned, clock>>

\* lines 48-60 up to the completion request: build the FeedbackItems and the
\* prompt; a row without 'feedback' or a text json.dumps rejects goes to the
\* outer handler
Start ==
    /\ pc = "call"
    /\ IF \E i \in 1..Len(feedback_items) : ~HasFeedback(feedback_items[i])
       THEN /\ BatchHandler("'feedback'")
            /\ UNCHANGED feedback_batch
       ELSE LET batch == [i \in 1..Len(feedback_items) |-> FeedbackItem(feedback_items[i])]
                texts == [i \in 1..Len(batch) |-> batch[i].text]
            IN /\ feedback_batch' = batch
               /\ IF Serializable(texts)
                  THEN /\ pc' = "awaiting_llm"
                       /\ UNCHANGED <<results, returned, escaped, clock>>
                  ELSE BatchHandler(LLMService_process_feedback_batch(texts, NotCalled).exc)
    /\ UNCHANGED <<feedback_items, completion, processed_batch, zip_index,
                   table, save_attempts, validator_vars, other_vars>>

\* the completion request ends; the rest of LLMService.process_feedback_batch
\* runs and hands processed_batch to the zip loop (line 63)
LLMResponds(outcome) ==
    /\ pc = "awaiting_llm"
    /\ completion' = outcome
    /\ LET texts == [i \in 1..Len(feedback_batch) |-> feedback_batch[i].text]
           r == LLMService_process_feedback_batch(texts, outcome)
       IN IF r.raised
          THEN /\ BatchHandler(r.exc)
               /\ UNCHANGED <<processed_batch, zip_index>>
          ELSE /\ processed_batch' = r.v
               /\ zip_index' = 1
               /\ pc' = "zip"
               /\ UNCHANGED <<results, returned, escaped, clock>>
    /\ UNCHANGED <<feedback_items, feedback_batch, table, save_attempts, validator_vars, other_vars>>

\* zip(feedback_batch, processed_batch) stops at the shorter list
ZipLen == Min(Len(feedback_batch), Len(processed_batch))

\* lines 63-82, one iteration, the variant without the handler of lines 77-82:
\* a failed save goes to the outer handler and ends the loop
SaveItem_NoItemHandler(outcome) ==
    /\ pc = "zip"
    /\ zip_index <= ZipLen
    /\ LET result == ProcessedFeedback(feedback_batch[zip_index],
                                       processed_batch[zip_index], clock)
           saved == save_processed_feedback(outcome)
       IN /\ save_attempts' = Append(save_attempts, [index |-> zip_index, outcome |-> outcome])
          /\ table' = IF saved.inserted THEN Append(table, result) ELSE table
          /\ IF saved.raised
             THEN LET rows == [i \in 1..Len(feedback_items) |->
                                 create_error_response(FeedbackItem(feedback_items[i]),
                                     "Batch processing error: " \o saved.exc, clock + i)]
                  IN /\ results' = results \o rows
                     /\ returned' = results \o rows
                     /\ clock' = clock + 1 + Len(feedback_items)
                     /\ pc' = "done"
                     /\ UNCHANGED zip_index
             ELSE /\ results' = Append(results, result)
                  /\ clock' = clock + 1
                  /\ zip_index' = zip_index + 1
                  /\ UNCHANGED <<pc, returned>>
    /\ UNCHANGED <<feedback_items, feedback_batch, completion, processed_batch,
                   escaped, validator_vars, other_vars>>

\* lines 63-82, one iteration of the zip loop: build the ProcessedFeedback, save
\* it, append it; any exception appends the item's error response instead
SaveItem(outcome) ==
    /\ pc = "zip"
    /\ zip_index <= ZipLen
    /\ LET result == ProcessedFeedback(feedback_batch[zip_index],
                                       processed_batch[zip_index], clock)
           saved == save_processed_feedback(outcome)
       IN /\ save_attempts' = Append(save_attempts, [index |-> zip_index, outcome |-> outcome])
          /\ table' = IF saved.inserted THEN Append(table, result) ELSE table
          /\ IF saved.raised
             THEN /\ results' = Append(results,
                                   create_error_response(feedback_batch[zip_index],
                                       "Processing error: " \o saved.exc, clock + 1))
                  /\ clock' = clock + 2
             ELSE /\ results' = Append(results, result)
                  /\ clock' = clock + 1
    /\ zip_index' = zip_index + 1
    /\ UNCHANGED <<pc, feedback_items, feedback_batch, completion, processed_batch,
                   returned, escaped, validator_vars, other_vars>>

\* line 95, the variant that first appends an error row for every item the zip
\* left without a result
Return_PadsMissing ==
    /\ pc = "zip"
    /\ zip_index > ZipLen
    /\ returned' = results \o
                   [k \in 1..(Len(feedback_batch) - ZipLen) |->
                       create_error_response(feedback_batch[ZipLen + k],
                                             "No result returned", clock + k)]
    /\ pc' = "done"
    /\ UNCHANGED <<feedback_items, feedback_batch, completion, processed_batch,
                   zip_index, results, escaped, table, save_attempts, clock,
                   validator_vars, other_vars>>

\* line 95, after the loop: return [result.to_dict() for result in results]
Return ==
    /\ pc = "zip"
    /\ zip_index > ZipLen
    /\ returned' = results
    /\ pc' = "done"
    /\ UNCHANGED <<feedback_items, feedback_batch, completion, processed_batch,
                   zip_index, results, escaped, table, save_attempts, clock,
                   validator_vars, other_vars>>

(***************************************************************************)
(* The inputs the runs are checked on.                                     *)
(***************************************************************************)
OkSummary == "User praises the app"

\* input rows: with an email, without the 'email' key, without the 'feedback'
\* key, and with a numeric feedback cell
Rows ==
    { Row(Some(Text("Great app!")), Some("ann@example.com")),
      Row(Some(Text("App keeps crashing")), None),
      Row(None, Some("bob@example.com")),
      Row(Some(Int64("42")), Some("")) }

\* array elements the LLM answers with
ElemValid ==
    ObjectElem(RawObject(Some(JStr("positive")), Some("User Satisfaction"),
                         Some("Positive Feedback"), Some(<<"praise">>), Some(OkSummary)))

ElemAliasTag ==
    ObjectElem(RawObject(Some(JStr("Bug")), Some("Bug"), Some("crash"),
                         Some(<<"crash", "data_loss", "login_error", "api_error">>),
                         Some("App crashes on login")))

ElemBadCategory ==
    ObjectElem(RawObject(Some(JStr("GREAT")), Some("Billing"), Some("Refunds"),
                         Some(<<>>), Some(OkSummary)))

ElemNoSentiment ==
    ObjectElem(RawObject(None, Some("Performance"), Some("Slowness"), None,
                         Some("Loading takes too long")))

ElemNumberSentiment ==
    ObjectElem(RawObject(Some(JNum("5")), Some("Feature Requests"), Some("Enhancements"),
                         Some(<<"improvement">>), Some(OkSummary)))

ElemUnknownSub ==
    ObjectElem(RawObject(Some(JStr("meh")), Some("App Experience"), Some("Whatever"),
                         Some(<<>>), Some("Works on my old phone")))

Elems == {ElemValid, ElemAliasTag, ElemBadCategory, ElemNoSentiment,
          ElemNumberSentiment, ElemUnknownSub}

\* what the endpoint may do with a request
TransportFailure == "Connection error."

CompletionOutcomes ==
    {Raises(TransportFailure)}
    \cup {Answers(Content(k, JsonNull)) : k \in {"none", "empty", "prose"}}
    \cup {Answers(Content("json", JsonArray(a))) : a \in SeqsUpTo(Elems, MaxResults)}
    \cup {Answers(Content("json", v)) : v \in {JsonObject(5), JsonString(2), JsonNumber, JsonNull}}
    \cup {Answers(Content("fenced_json", JsonArray(<<ElemValid>>)))}

(***************************************************************************)
(* llm_service.py: the completion client, _create_chat_completion and      *)
(* get_response_safe, against an endpoint whose behaviour on successive    *)
(* requests is attempt_outcomes.                                           *)
(***************************************************************************)
\* LLMConfig.MAX_RETRIES
MAX_RETRIES == 3

\* the state of a call of the client: not made, returned the endpoint's content,
\* returned a text built by the client, or raised (text is then str(e))
NoCall == [state |-> "none", content |-> Content("none", JsonNull), text |-> ""]

CallReturned(content) == [state |-> "returned", content |-> content, text |-> ""]

CallReturnedText(text) ==
    [state |-> "returned_text", content |-> Content("none", JsonNull), text |-> text]

CallRaised(exc) == [state |-> "raised", content |-> Content("none", JsonNull), text |-> exc]

\* what a call of the client leaves alone
ClientUnchanged ==
    UNCHANGED <<feedback_items, feedback_batch, completion, processed_batch,
                zip_index, results, returned, escaped, table, save_attempts,
                clock, validator_vars, prompt, attempt_outcomes, processor_vars,
                main_vars, analyze_vars>>

\* lines 33-44: one request is sent (lines 36-40); its content is returned, or
\* its exception is logged and re-raised
LLMService_create_chat_completion ==
    /\ pc = "client"
    /\ attempts' = attempts + 1
    /\ LET completed == create_chat_completion(attempt_outcomes[attempts + 1])
       IN call_result' = IF completed.raised THEN CallRaised(completed.exc)
                         ELSE CallReturned(completed.v)
    /\ pc' = "completion_done"
    /\ ClientUnchanged

\* get_response_safe, the variant without the handler of lines 122-124
get_response_safe_NoHandler ==
    /\ pc = "client"
    /\ attempts' = attempts + 1
    /\ LET completed == create_chat_completion(attempt_outcomes[attempts + 1])
       IN call_result' = IF completed.raised THEN CallRaised(completed.exc)
                         ELSE CallReturned(completed.v)
    /\ pc' = "safe_done"
    /\ ClientUnchanged

\* lines 100-124: get_response_safe(prompt) returns what _create_chat_completion
\* returns; any exception becomes the returned text f"Error: {str(e)}"
get_response_safe ==
    /\ pc = "client"
    /\ attempts' = attempts + 1
    /\ LET completed == create_chat_completion(attempt_outcomes[attempts + 1])
       IN call_result' = IF completed.raised
                         THEN CallReturnedText("Error: " \o completed.exc)
                         ELSE CallReturned(completed.v)
    /\ pc' = "safe_done"
    /\ ClientUnchanged

\* the prompts given to get_response_safe
Prompts == {"", "Summarise this feedback", "n/a"}

\* what the endpoint may do with one request of the client
RateLimited == "Rate limit reached"

ClientOutcomes ==
    {Raises(TransportFailure), Raises(RateLimited)}
    \cup {Answers(Content(k, JsonNull)) : k \in {"none", "empty", "prose"}}
    \cup {Answers(Content("json", JsonArray(<<ElemValid>>)))}

(***************************************************************************)
(* The values of the variables of the parts that a specification leaves    *)
(* alone.                                                                  *)
(***************************************************************************)
EmptyDict == [k \in {} |-> 0]

ClientIdle ==
    /\ prompt = ""
    /\ attempt_outcomes = <<>>
    /\ attempts = 0
    /\ call_result = NoCall

ProcessorIdle ==
    /\ requested = 0
    /\ batch_size = 0

MainIdle ==
    /\ slider = 0
    /\ total_items = 0
    /\ main_i = 0
    /\ request_sizes = <<>>
    /\ in_flight = 0

AnalyzeIdle ==
    /\ all_feedbacks = <<>>
    /\ chunk_start = 0
    /\ chunk_log = <<>>
    /\ sent_batches = <<>>
    /\ category_analysis = EmptyDict

OthersIdle == ClientIdle /\ ProcessorIdle /\ MainIdle /\ AnalyzeIdle

(***************************************************************************)
(* Specification of one call of FeedbackProcessor.process_feedback_batch.  *)
(***************************************************************************)
NotValidated == None

Init ==
    /\ pc = "call"
    /\ feedback_items \in SeqsUpTo(Rows, MaxItems)
    /\ feedback_batch = <<>>
    /\ completion = NotCalled
    /\ processed_batch = <<>>
    /\ zip_index = 0
    /\ results = <<>>
    /\ returned = <<>>
    /\ escaped = None
    /\ table = <<>>
    /\ save_attempts = <<>>
    /\ clock = 0
    /\ raw = EmptyObject
    /\ validated = NotValidated
    /\ OthersIdle

Next ==
    \/ Start
    \/ \E outcome \in CompletionOutcomes : LLMResponds(outcome)
    \/ \E outcome \in SaveOutcomes : SaveItem(outcome)
    \/ Return

Spec == Init /\ [][Next]_vars

(***************************************************************************)
(* Specification of one run of the validator, FeedbackResponse on raw, on  *)
(* every raw object built from the values below.                           *)
(***************************************************************************)
Ten == "0123456789"

Fifty == Ten \o Ten \o Ten \o Ten \o Ten

\* a summary of exactly 200 characters
Summary200 == Fifty \o Fifty \o Fifty \o Fifty

AllGroupNames == UNION {GroupNames(c) : c \in CategoryKeys}

AllTags == UNION {NestedTags(c) : c \in CategoryKeys}

RawSentiments ==
    {None, Some(JStr("positive")), Some(JStr("negative")), Some(JStr("neutral")),
     Some(JStr("GREAT")), Some(JStr("meh")), Some(JNum("5"))}

RawCategories ==
    {None} \cup {Some(c) : c \in CategoryKeys \cup
                    {"Bug", "Bugs", "Feature", "Features", "Performance Issues",
                     "Performance Problems", "Error", "Billing"}}

RawSubcategories ==
    {None} \cup {Some(s) : s \in AllGroupNames \cup AllTags \cup {"Whatever"}}

RawDetails ==
    {None, Some(<<>>), Some(<<"crash">>), Some(<<"ads", "pricing", "lag">>),
     Some(<<"crash", "data_loss", "login_error", "api_error">>)}

RawSummaries ==
    {None, Some("Too short"), Some("App froze."), Some(Summary200), Some(Summary200 \o "!")}

RawObjects ==
    {RawObject(s, c, sub, d, sm) :
        s \in RawSentiments, c \in RawCategories, sub \in RawSubcategories,
        d \in RawDetails, sm \in RawSummaries}

InitValidator ==
    /\ pc = "validator"
    /\ feedback_items = <<>>
    /\ feedback_batch = <<>>
    /\ completion = NotCalled
    /\ processed_batch = <<>>
    /\ zip_index = 0
    /\ results = <<>>
    /\ returned = <<>>
    /\ escaped = None
    /\ table = <<>>
    /\ save_attempts = <<>>
    /\ clock = 0
    /\ raw \in RawObjects
    /\ validated = NotValidated
    /\ OthersIdle

\* lines 170-181 of llm_service.py on one element: FeedbackResponse on the element
Validate ==
    /\ pc = "validator"
    /\ validated = NotValidated
    /\ validated' = Some(FeedbackResponse(raw))
    /\ UNCHANGED <<raw, pipeline_vars, other_vars>>

NextValidator == Validate

SpecValidator == InitValidator /\ [][NextValidator]_vars

(***************************************************************************)
(* Specification of one call of the completion client, for every prompt    *)
(* and every behaviour of the endpoint on MAX_RETRIES successive requests. *)
(***************************************************************************)
PipelineIdle ==
    /\ feedback_items = <<>>
    /\ feedback_batch = <<>>
    /\ completion = NotCalled
    /\ processed_batch = <<>>
    /\ zip_index = 0
    /\ results = <<>>
    /\ returned = <<>>
    /\ escaped = None
    /\ table = <<>>
    /\ save_attempts = <<>>
    /\ clock = 0

ValidatorIdle ==
    /\ raw = EmptyObject
    /\ validated = NotValidated

InitCompletion ==
    /\ pc = "client"
    /\ PipelineIdle
    /\ ValidatorIdle
    /\ prompt \in Prompts
    /\ attempt_outcomes \in [1..MAX_RETRIES -> ClientOutcomes]
    /\ attempts = 0
    /\ call_result = NoCall
    /\ ProcessorIdle
    /\ MainIdle
    /\ AnalyzeIdle

NextCompletion ==
    \/ LLMService_create_chat_completion
    \/ get_response_safe

SpecCompletion == InitCompletion /\ [][NextCompletion]_vars

(***************************************************************************)
(* config/processing_config.py and FeedbackProcessor.__init__: the batch   *)
(* size of a processor.                                                    *)
(***************************************************************************)
\* BatchConfig.MIN_BATCH_SIZE
MIN_BATCH_SIZE == 10

\* BatchConfig.MAX_BATCH_SIZE
MAX_BATCH_SIZE == 100

Max(a, b) == IF a >= b THEN a ELSE b

\* validate_batch_size, the variant without the lower limit
validate_batch_size_MinOnly(size) == Min(size, MAX_BATCH_SIZE)

\* BatchConfig.validate_batch_size(size): max(min(size, MAX), MIN)
validate_batch_size(size) == Max(Min(size, MAX_BATCH_SIZE), MIN_BATCH_SIZE)

\* FeedbackProcessor(batch_size=requested), line 44
Construct ==
    /\ pc = "new"
    /\ batch_size' = validate_batch_size(requested)
    /\ pc' = "ready"
    /\ UNCHANGED <<feedback_items, feedback_batch, completion, processed_batch,
                   zip_index, results, returned, escaped, table, save_attempts,
                   clock, validator_vars, client_vars, requested, main_vars,
                   analyze_vars>>

(***************************************************************************)
(* main.py: the batch loop of the page, by the sizes of the lists: the     *)
(* uploaded rows are cut into batches of the slider's value and each batch *)
(* is given to processor.process_feedback_batch, which hands every text of *)
(* its argument to the classifier in one request.                          *)
(***************************************************************************)
\* main.py line 23: the batch size the page constructs its processor with
MAIN_BATCH_SIZE == 100

\* the values of the slider: min_value 50, max_value 150, step 3
SliderValues == {v \in 50..150 : (v - 50) % 3 = 0}

\* the number of texts in the one completion request that
\* FeedbackProcessor.process_feedback_batch makes for a list of n_items rows:
\* texts = [item.text for item in feedback_batch], never cut
RequestSize(n_items) == n_items

MainUnchanged ==
    UNCHANGED <<feedback_items, feedback_batch, completion, processed_batch,
                zip_index, results, returned, escaped, table, save_attempts,
                clock, validator_vars, client_vars, processor_vars, analyze_vars>>

\* lines 27-34 and 74-88: the slider is read and the rows are prepared
MainStart(value, n_rows) ==
    /\ pc = "ready"
    /\ requested = MAIN_BATCH_SIZE
    /\ slider' = value
    /\ total_items' = n_rows
    /\ main_i' = 0
    /\ pc' = "main"
    /\ UNCHANGED <<request_sizes, in_flight>>
    /\ MainUnchanged

\* lines 90-96: batch = feedback_data[i:i + batch_size] is given to
\* processor.process_feedback_batch, whose completion request goes out
MainBatch ==
    /\ pc = "main"
    /\ main_i < total_items
    /\ request_sizes' = Append(request_sizes,
                               RequestSize(Min(slider, total_items - main_i)))
    /\ in_flight' = in_flight + 1
    /\ pc' = "main_awaiting"
    /\ UNCHANGED <<slider, total_items, main_i>>
    /\ MainUnchanged

\* the call returns and the loop moves to the next batch
MainBatchReturns ==
    /\ pc = "main_awaiting"
    /\ in_flight' = in_flight - 1
    /\ main_i' = main_i + slider
    /\ pc' = "main"
    /\ UNCHANGED <<slider, total_items, request_sizes>>
    /\ MainUnchanged

\* the loop is over
MainDone ==
    /\ pc = "main"
    /\ main_i >= total_items
    /\ pc' = "main_done"
    /\ UNCHANGED main_vars
    /\ MainUnchanged

\* largest batch size asked of the constructor, besides 500
MaxRequested == 110

RequestedSizes == (-2..MaxRequested) \cup {500}

\* the numbers of uploaded rows
ItemCounts == {0, 1, 49, 50, 99, 100, 101, 149, 150, 300}

InitMain ==
    /\ pc = "new"
    /\ PipelineIdle
    /\ ValidatorIdle
    /\ ClientIdle
    /\ requested \in RequestedSizes
    /\ batch_size = 0
    /\ MainIdle
    /\ AnalyzeIdle

NextMain ==
    \/ Construct
    \/ \E value \in SliderValues, n_rows \in ItemCounts : MainStart(value, n_rows)
    \/ MainBatch
    \/ MainBatchReturns
    \/ MainDone

SpecMain == InitMain /\ [][NextMain]_vars

(***************************************************************************)
(* process_feedback_service.py: FeedbackProcessor.analyze_common_issues.   *)
(***************************************************************************)
\* lines 133-140: category_analysis[category][subcategory] += 1, the missing
\* keys being created first
Increment(analysis, category, subcategory) ==
    LET inner == IF category \in DOMAIN analysis THEN analysis[category] ELSE EmptyDict
        count == IF subcategory \in DOMAIN inner THEN inner[subcategory] ELSE 0
    IN (category :> ((subcategory :> (count + 1)) @@ inner)) @@ analysis

\* lines 130-140: the loop over batch_results; each iteration takes the value
\* the previous one left (bound once, as the loop variable is) and increments it
CountResults(analysis, batch_results) ==
    LET F[i \in 0..Len(batch_results)] ==
          IF i = 0 THEN analysis
          ELSE CHOOSE next \in {Increment(previous, batch_results[i].category,
                                          batch_results[i].subcategory) :
                                    previous \in {F[i - 1]}} : TRUE
    IN F[Len(batch_results)]

\* line 127, the variant batch = feedbacks[i:i + self.batch_size + 1]
Batch_Overlapping == SubSeq(all_feedbacks, chunk_start + 1,
                            Min(chunk_start + batch_size + 1, Len(all_feedbacks)))

\* line 127: batch = feedbacks[i:i + self.batch_size]
Batch == SubSeq(all_feedbacks, chunk_start + 1,
                Min(chunk_start + batch_size, Len(all_feedbacks)))

\* one entry of chunk_log: the number of texts of the chunk, whether a
\* completion request was made for it, what the endpoint did, and how many
\* times a count was incremented for it
Chunk(texts, request_made, outcome, counted) ==
    [texts |-> texts, request_made |-> request_made, outcome |-> outcome,
     counted |-> counted]

AnalyzeUnchanged ==
    UNCHANGED <<feedback_items, feedback_batch, completion, processed_batch,
                zip_index, results, returned, escaped, table, save_attempts,
                clock, validator_vars, client_vars, processor_vars, slider,
                total_items, main_i, all_feedbacks>>

\* lines 126-129, the variant that does not await the classifier: the request
\* of a chunk goes out and the loop moves on to the next chunk at once
AnalyzeChunk_NoAwait ==
    /\ pc \in {"ready", "analyze"}
    /\ chunk_start < Len(all_feedbacks)
    /\ IF Serializable(Batch)
       THEN /\ request_sizes' = Append(request_sizes, Len(Batch))
            /\ sent_batches' = Append(sent_batches, Batch)
            /\ in_flight' = in_flight + 1
            /\ chunk_start' = chunk_start + batch_size
            /\ pc' = "analyze"
            /\ UNCHANGED <<chunk_log, category_analysis>>
       ELSE /\ LLMService_process_feedback_batch(Batch, NotCalled).raised
            /\ chunk_log' = Append(chunk_log, Chunk(Len(Batch), FALSE, NotCalled, 0))
            /\ chunk_start' = chunk_start + batch_size
            /\ pc' = "analyze"
            /\ UNCHANGED <<request_sizes, in_flight, sent_batches, category_analysis>>
    /\ AnalyzeUnchanged

\* lines 126-129, one iteration up to the completion request: the classifier
\* is called with the chunk; when json.dumps of the chunk raises, the handler
\* of lines 142-144 skips the chunk
AnalyzeChunk ==
    /\ pc \in {"ready", "analyze"}
    /\ chunk_start < Len(all_feedbacks)
    /\ IF Serializable(Batch)
       THEN /\ request_sizes' = Append(request_sizes, Len(Batch))
            /\ sent_batches' = Append(sent_batches, Batch)
            /\ in_flight' = in_flight + 1
            /\ pc' = "analyze_awaiting"
            /\ UNCHANGED <<chunk_start, chunk_log, category_analysis>>
       ELSE /\ LLMService_process_feedback_batch(Batch, NotCalled).raised
            /\ chunk_log' = Append(chunk_log, Chunk(Len(Batch), FALSE, NotCalled, 0))
            /\ chunk_start' = chunk_start + batch_size
            /\ pc' = "analyze"
            /\ UNCHANGED <<request_sizes, in_flight, sent_batches, category_analysis>>
    /\ AnalyzeUnchanged

\* lines 129-140: the request ends, the classifier returns batch_results and
\* every result is counted
AnalyzeResponds(outcome) ==
    /\ pc = "analyze_awaiting"
    /\ LET batch_results == LLMService_process_feedback_batch(Batch, outcome).v
       IN /\ category_analysis' = CountResults(category_analysis, batch_results)
          /\ chunk_log' = Append(chunk_log,
                                 Chunk(Len(Batch), TRUE, outcome, Len(batch_results)))
    /\ chunk_start' = chunk_start + batch_size
    /\ in_flight' = in_flight - 1
    /\ pc' = "analyze"
    /\ UNCHANGED <<request_sizes, sent_batches>>
    /\ AnalyzeUnchanged

\* line 146: return category_analysis
AnalyzeReturn ==
    /\ pc \in {"ready", "analyze"}
    /\ chunk_start >= Len(all_feedbacks)
    /\ pc' = "analyzed"
    /\ UNCHANGED <<request_sizes, in_flight, chunk_start, chunk_log, sent_batches,
                   category_analysis>>
    /\ AnalyzeUnchanged

\* longest list of texts given to analyze_common_issues
MaxTexts == 11

\* the i-th text of a list: the texts of a list are all different
TextOf(i) == Text("Feedback " \o ToString(i))

AnalyzeInputs ==
    {[i \in 1..n |-> TextOf(i)] : n \in 0..MaxTexts}
    \cup UNION {{[i \in 1..n |-> IF i = k THEN Int64("42") ELSE TextOf(i)] :
                    k \in {1, n}} : n \in 1..MaxTexts}

\* the batch sizes asked of the constructor
AnalyzeRequested == {5, 11, 500}

\* what the endpoint may do with the request of a chunk
AnalyzeElems == {ElemValid, ElemAliasTag, ElemBadCategory}

AnalyzeOutcomes ==
    {Raises(TransportFailure), Answers(Content("prose", JsonNull))}
    \cup {Answers(Content("json", JsonArray(a))) : a \in SeqsUpTo(AnalyzeElems, MaxResults)}

InitAnalyze ==
    /\ pc = "new"
    /\ PipelineIdle
    /\ ValidatorIdle
    /\ ClientIdle
    /\ requested \in AnalyzeRequested
    /\ batch_size = 0
    /\ MainIdle
    /\ all_feedbacks \in AnalyzeInputs
    /\ chunk_start = 0
    /\ chunk_log = <<>>
    /\ sent_batches = <<>>
    /\ category_analysis = EmptyDict

NextAnalyze ==
    \/ Construct
    \/ AnalyzeChunk
    \/ \E outcome \in AnalyzeOutcomes : AnalyzeResponds(outcome)
    \/ AnalyzeReturn

SpecAnalyze == InitAnalyze /\ [][NextAnalyze]_vars

\* analyze_common_issues with every step that can be taken eventually taken:
\* the classifier call is awaited and its completion request is a blocking call
\* that returns or raises
SpecAnalyzeLive == SpecAnalyze /\ WF_vars(NextAnalyze)

(***************************************************************************)
(* Specification of a whole run over several chunks: the batch loop of     *)
(* main.py, or analyze_common_issues, on a constructed processor.          *)
(***************************************************************************)
InitRuns == InitMain \/ InitAnalyze

NextRuns ==
    \/ Construct
    \/ \E value \in SliderValues, n_rows \in ItemCounts : MainStart(value, n_rows)
    \/ MainBatch
    \/ MainBatchReturns
    \/ MainDone
    \/ AnalyzeChunk
    \/ \E outcome \in AnalyzeOutcomes : AnalyzeResponds(outcome)
    \/ AnalyzeReturn

SpecRuns == InitRuns /\ [][NextRuns]_vars

(***************************************************************************)
(* Properties.                                                             *)
(***************************************************************************)
\* the texts LLMService.process_feedback_batch was called with
Texts == [i \in 1..Len(feedback_batch) |-> feedback_batch[i].text]

\* LLMService.process_feedback_batch has returned processed_batch
Classified == completion.kind # "not_called"

\* the completion call raised, or its text is no JSON document
CallFailed ==
    \/ completion.kind = "raise"
    \/ completion.kind = "answer" /\ completion.content.kind # "json"

\* the save attempt made for pair i raised
SaveRaised(i) ==
    i <= Len(save_attempts) /\ save_attempts[i].outcome # "inserted"

\* the message of the exception the save attempt for pair i raised
SaveError(i) ==
    IF save_attempts[i].outcome = "insert_raises"
    THEN "Connection refused" ELSE "list index out of range"

IsErrorFields(r, subcategory) ==
    /\ r.sentiment = "neutral"
    /\ r.category = "Error"
    /\ r.subcategory = subcategory
    /\ r.details = <<"error_processing">>

\* C1: for every non-empty list of texts and every LLM outcome, the classifier
\* returns as many results as it was given texts.
C1_LengthPreserved ==
    (Classified /\ Len(Texts) > 0) => Len(processed_batch) = Len(Texts)

\* C2: process_feedback_batch returns exactly one row per input row, in input
\* order, row i carrying the email and the feedback text of input row i.
C2_OneRowPerInput ==
    pc = "done" =>
        /\ Len(returned) = Len(feedback_items)
        /\ \A i \in 1..Len(returned) :
              /\ returned[i].email = GetEmail(feedback_items[i])
              /\ feedback_items[i].feedback = Some(returned[i].original_feedback)

\* C3: no exception leaves process_feedback_batch, whatever the rows.
C3_NoExceptionEscapes ==
    pc # "raised" /\ escaped = None

\* C4: a validated result has a taxonomy category (or "Error") and, unless the
\* category is "Error", a subcategory that is a group name of that category.
C4_TaxonomyRespected ==
    (validated # NotValidated /\ validated[1].ok) =>
        LET d == validated[1].dict
        IN /\ d.category \in CategoryKeys \cup {"Error"}
           /\ d.category # "Error" => d.subcategory \in GroupNames(d.category)

\* C5: every result of the classifier and every row of the processor has a
\* sentiment that is one of positive, negative, neutral.
C5_SentimentInEnum ==
    /\ \A i \in 1..Len(processed_batch) : processed_batch[i].sentiment \in FeedbackSentiment
    /\ \A i \in 1..Len(results) : results[i].sentiment \in FeedbackSentiment
    /\ \A i \in 1..Len(returned) : returned[i].sentiment \in FeedbackSentiment
    /\ \A i \in 1..Len(table) : table[i].sentiment \in FeedbackSentiment

\* C5 witness: a run returned a row whose raw sentiment was the synonym "Bug",
\* one whose raw sentiment was the unknown "meh", and the call answered an array.
C5_Witness ==
    /\ pc = "done"
    /\ completion = Answers(Content("json", JsonArray(<<ElemAliasTag, ElemUnknownSub>>)))
    /\ Len(returned) = 2
    /\ returned[1].sentiment = "negative"
    /\ returned[2].sentiment = "neutral"
    /\ returned[2].category = "App Experience"

\* C6: every result of the classifier has between 1 and 3 details.
C6_DetailsBounded ==
    \A i \in 1..Len(processed_batch) :
        Len(processed_batch[i].details) >= 1 /\ Len(processed_batch[i].details) <= 3

\* C7: when the LLM answers a JSON array, position i of the output is the Error /
\* Validation Error result if element i fails validation and element i's own
\* validated result otherwise; the output has the array's length.
C7_ElementIsolation ==
    (Classified /\ completion.kind = "answer" /\ completion.content.kind = "json"
        /\ completion.content.value.t = "array") =>
        LET items == completion.content.value.items
        IN /\ Len(processed_batch) = Len(items)
           /\ \A i \in 1..Len(items) :
                IF FeedbackResponse(items[i].obj).ok
                THEN processed_batch[i] = FeedbackResponse(items[i].obj).dict
                ELSE IsErrorFields(processed_batch[i], "Validation Error")

\* C7 witness: a two-element array whose second element has an invalid category;
\* the first keeps its result, the second is the Validation Error.
C7_Witness ==
    /\ completion = Answers(Content("json", JsonArray(<<ElemValid, ElemBadCategory>>)))
    /\ Len(processed_batch) = 2
    /\ processed_batch[1] = Result("positive", "User Satisfaction", "Positive Feedback",
                                   <<"praise">>, OkSummary)
    /\ processed_batch[2].subcategory = "Validation Error"

\* C8: when the completion call raises or its text is not JSON, the classifier
\* returns one Error / Processing Error result per text and does not raise.
C8_WholeCallFailure ==
    CallFailed =>
        /\ pc \in {"zip", "done"}
        /\ escaped = None
        /\ Len(processed_batch) = Len(Texts)
        /\ \A i \in 1..Len(processed_batch) :
              IsErrorFields(processed_batch[i], "Processing Error")

\* C8 witness: the answer was prose for a batch of two texts.
C8_Witness ==
    /\ completion = Answers(Content("prose", JsonNull))
    /\ Len(Texts) = 2
    /\ Len(processed_batch) = 2
    /\ processed_batch[2].subcategory = "Processing Error"

\* the rows returned after a failed completion call are one per input item, each
\* Error / Processing Error and carrying the item's email and text
C9_ErrorRows ==
    /\ Len(returned) = Len(feedback_items)
    /\ \A i \in 1..Len(returned) :
          /\ returned[i].category = "Error"
          /\ returned[i].subcategory = "Processing Error"
          /\ returned[i].email = GetEmail(feedback_items[i])
          /\ feedback_items[i].feedback = Some(returned[i].original_feedback)

\* C9 as stated: when the completion call raises, every returned row is an Error /
\* Processing Error row whose summary mentions the reason of that failure.
C9_Original ==
    (pc = "done" /\ completion.kind = "raise") =>
        /\ C9_ErrorRows
        /\ \A i \in 1..Len(returned) : Contains(returned[i].summary, completion.reason)

\* C9 amended: when the completion call raises, the call returns (no exception),
\* every returned row is an Error / Processing Error row, and its summary mentions
\* the reason of the completion failure, or, for a row whose own save raised, the
\* reason of that save failure instead.
C9_Amended ==
    completion.kind = "raise" =>
        /\ pc \in {"zip", "done"}
        /\ pc = "done" =>
              /\ C9_ErrorRows
              /\ \A i \in 1..Len(returned) :
                    IF SaveRaised(i)
                    THEN Contains(returned[i].summary, SaveError(i))
                    ELSE Contains(returned[i].summary, completion.reason)

\* C9 witness: the completion call raised for two items, the first placeholder was
\* saved and the save of the second raised.
C9_Witness ==
    /\ pc = "done"
    /\ completion = Raises(TransportFailure)
    /\ Len(returned) = 2
    /\ Len(save_attempts) = 2
    /\ save_attempts[1].outcome = "inserted"
    /\ save_attempts[2].outcome = "insert_raises"
    /\ Contains(returned[1].summary, TransportFailure)

\* C10: a save failure for pair i turns only row i into an Error row carrying the
\* failure message; every pair gets its save attempt, in order, whatever failed
\* before it, and every other row is the mapping of its own classifier result.
C10_ItemIsolation ==
    pc \in {"zip", "done"} =>
        /\ Len(save_attempts) = Len(results) \/ Len(save_attempts) = 0
        /\ pc = "done" => Len(save_attempts) = ZipLen
        /\ \A i \in 1..Len(save_attempts) :
              /\ save_attempts[i].index = i
              /\ results[i].email = feedback_batch[i].email
              /\ results[i].original_feedback = feedback_batch[i].text
              /\ IF SaveRaised(i)
                 THEN /\ results[i].category = "Error"
                      /\ results[i].subcategory = "Processing Error"
                      /\ Contains(results[i].summary, SaveError(i))
                 ELSE /\ results[i].sentiment = processed_batch[i].sentiment
                      /\ results[i].category = processed_batch[i].category
                      /\ results[i].subcategory = processed_batch[i].subcategory
                      /\ results[i].details = processed_batch[i].details
                      /\ results[i].summary = processed_batch[i].summary
                      /\ \E k \in 1..Len(table) : table[k] = results[i]

\* C10 witness: the save of the first of two valid results raised; the second was
\* still saved and returned as classified.
C10_Witness ==
    /\ pc = "done"
    /\ Len(returned) = 2
    /\ Len(save_attempts) = 2
    /\ save_attempts[1].outcome = "insert_raises"
    /\ save_attempts[2].outcome = "inserted"
    /\ returned[1].category = "Error"
    /\ returned[2].category = "User Satisfaction"
    /\ Len(table) = 1

(***************************************************************************)
(* Properties of the completion client (SpecCompletion).                   *)
(***************************************************************************)
\* the first of the MAX_RETRIES requests that the endpoint answers, 0 if none
FirstAnswered ==
    IF \E k \in 1..MAX_RETRIES : attempt_outcomes[k].kind = "answer"
    THEN CHOOSE k \in 1..MAX_RETRIES :
            /\ attempt_outcomes[k].kind = "answer"
            /\ \A j \in 1..(k - 1) : attempt_outcomes[j].kind = "raise"
    ELSE 0

\* C11: _create_chat_completion retries a failed request up to MAX_RETRIES
\* attempts: a failure followed by a success yields the successful text, and a
\* failure is surfaced only after the last attempt failed.
C11_RetriesUpToThree ==
    pc = "completion_done" =>
        IF FirstAnswered # 0
        THEN /\ attempts = FirstAnswered
             /\ call_result = CallReturned(attempt_outcomes[FirstAnswered].content)
        ELSE /\ attempts = MAX_RETRIES
             /\ call_result.state = "raised"

\* get_response_safe was called and its first request failed
SafeCallFailed ==
    /\ pc = "safe_done"
    /\ attempt_outcomes[1].kind = "raise"

C18_EmptyResponseFails ==
    (/\ pc = "completion_done"
     /\ attempt_outcomes[1].kind = "answer"
     /\ attempt_outcomes[1].content.kind \in {"none", "empty"})
        => call_result.state = "raised"

(***************************************************************************)
(* Properties of the classifier's parsing of the answer (Spec).            *)
(***************************************************************************)
\* the answer is a JSON text that parses to something else than an array
NotAnArray ==
    /\ completion.kind = "answer"
    /\ completion.content.kind = "json"
    /\ completion.content.value.t # "array"

\* C19: when the answer parses but is not an array (an object, a string, a
\* number), the classifier returns one Processing Error result per input text,
\* never a list sized by the object's keys or the string's characters.
C19_NonArrayIsFailure ==
    NotAnArray =>
        /\ Len(processed_batch) = Len(Texts)
        /\ \A i \in 1..Len(processed_batch) :
              IsErrorFields(processed_batch[i], "Processing Error")

\* the answer is a JSON array wrapped in a Markdown code fence
Fenced ==
    /\ completion.kind = "answer"
    /\ completion.content.kind = "fenced_json"

\* C20: a fenced JSON array yields the same validated results as the same array
\* without its first and last fence lines.
C20_FenceStripped ==
    Fenced =>
        /\ pc \in {"zip", "done"}
        /\ processed_batch =
              LLMService_process_feedback_batch(
                  Texts, Answers(Content("json", completion.content.value))).v

(***************************************************************************)
(* Properties of the validator on schema-valid results (SpecValidator).    *)
(***************************************************************************)
\* r already satisfies the schema: sentiment in the enum, category a taxonomy
\* key, subcategory a group of that category, 1 to 3 details, summary of 10 to
\* 200 characters
SchemaValid(r) ==
    /\ r.sentiment # None
    /\ r.sentiment[1].t = "str"
    /\ r.sentiment[1].s \in FeedbackSentiment
    /\ r.category # None
    /\ r.category[1] \in CategoryKeys
    /\ r.subcategory # None
    /\ r.subcategory[1] \in GroupNames(r.category[1])
    /\ r.details # None
    /\ Len(r.details[1]) \in 1..3
    /\ r.summary # None
    /\ Len(r.summary[1]) >= 10
    /\ Len(r.summary[1]) <= 200

\* C16: validating a result that already satisfies the schema succeeds and
\* returns it unchanged.
C16_ValidationIdempotent ==
    (validated # NotValidated /\ SchemaValid(raw)) =>
        /\ validated[1].ok
        /\ validated[1].dict =
              Result(raw.sentiment[1].s, raw.category[1], raw.subcategory[1],
                     raw.details[1], raw.summary[1])

\* C16 witness: a valid Performance / Resource Usage result with three details
\* and a summary of 200 characters was validated and came back as it was.
C16_Witness ==
    /\ validated # NotValidated
    /\ SchemaValid(raw)
    /\ raw.sentiment = Some(JStr("negative"))
    /\ raw.category = Some("Performance")
    /\ raw.subcategory = Some("Resource Usage")
    /\ Len(raw.details[1]) = 3
    /\ Len(raw.summary[1]) = 200
    /\ validated[1].ok
    /\ validated[1].dict.subcategory = "Resource Usage"

(***************************************************************************)
(* Properties of the batch size (SpecMain).                                *)
(***************************************************************************)
\* C12: no completion request made on behalf of process_feedback_batch carries
\* more texts than the processor's batch size, which is at most 100.
C12_RequestWithinBatchSize ==
    pc \in {"main", "main_awaiting", "main_done"} =>
        \A k \in 1..Len(request_sizes) :
            /\ request_sizes[k] <= batch_size
            /\ request_sizes[k] <= 100

\* C15: the constructed processor's batch size is 10 when the requested size is
\* below 10, 100 when it is above 100 and the requested size otherwise, so it
\* always lies in [10, 100].
C15_BatchSizeClamped ==
    pc # "new" =>
        /\ requested < 10 => batch_size = 10
        /\ requested > 100 => batch_size = 100
        /\ (requested >= 10 /\ requested <= 100) => batch_size = requested
        /\ batch_size >= 10
        /\ batch_size <= 100

\* C15 witness: a processor asked for batch size 5 was constructed with 10.
C15_Witness ==
    /\ pc = "ready"
    /\ requested = 5
    /\ batch_size = 10

(***************************************************************************)
(* Properties of analyze_common_issues (SpecAnalyze).                      *)
(***************************************************************************)
\* the classification call made for a chunk failed: the classifier raised, the
\* completion request raised, or its answer was no JSON document
ChunkFailed(chunk) ==
    \/ ~chunk.request_made
    \/ chunk.outcome.kind = "raise"
    \/ chunk.outcome.kind = "answer" /\ chunk.outcome.content.kind # "json"

\* the number of chunks of the list: ceil(N / batch_size)
ChunkCount == (Len(all_feedbacks) + batch_size - 1) \div batch_size

\* C13: a chunk whose classification call fails contributes zero to every
\* count (no category, "Error" included, is incremented for it), and the
\* remaining chunks are still analysed.
C13_FailedChunkContributesZero ==
    /\ \A k \in 1..Len(chunk_log) : ChunkFailed(chunk_log[k]) => chunk_log[k].counted = 0
    /\ (\A k \in 1..Len(chunk_log) : ChunkFailed(chunk_log[k])) =>
           category_analysis = EmptyDict
    /\ pc = "analyzed" => Len(chunk_log) = ChunkCount

RECURSIVE SumCounts(_)
\* the sum of the counts of one category
SumCounts(counts) ==
    IF DOMAIN counts = {} THEN 0
    ELSE LET k == CHOOSE k \in DOMAIN counts : TRUE
         IN counts[k] + SumCounts([j \in DOMAIN counts \ {k} |-> counts[j]])

\* C14: on N texts, whatever the endpoint answers, the counts of each category
\* sum to at most N.
C14_CountsAtMostN ==
    pc = "analyzed" =>
        \A category \in DOMAIN category_analysis :
            SumCounts(category_analysis[category]) <= Len(all_feedbacks)

(***************************************************************************)
(* Properties of the subcategory and sentiment validators (SpecValidator). *)
(***************************************************************************)
\* the raw subcategory is a tag nested under a group of the validated category
RawSubcategoryIsTag ==
    /\ validated # NotValidated
    /\ validated[1].ok
    /\ validated[1].dict.category \in CategoryKeys
    /\ raw.subcategory # None
    /\ raw.subcategory[1] \in NestedTags(validated[1].dict.category)

\* C21: a raw subcategory that is a tag nested under a group of the (aliased)
\* category is rewritten to that group's name; the result does not keep the tag.
C21_TagRewrittenToGroup ==
    RawSubcategoryIsTag =>
        LET d == validated[1].dict
        IN /\ d.subcategory = FirstGroupWith(CATEGORIES[d.category], raw.subcategory[1])
           /\ d.subcategory \in GroupNames(d.category)

\* raw with its sentiment replaced by one the enum holds
WithNeutralSentiment == [raw EXCEPT !.sentiment = Some(JStr("neutral"))]

\* C22: whatever the raw sentiment (a synonym in any letter case, an unknown
\* string, a value that is no string, a missing field), the validator produces
\* a sentiment: the element fails validation only if it also fails with a
\* valid sentiment in its place.
C22_SentimentNeverFails ==
    validated # NotValidated =>
        /\ validated[1].ok = FeedbackResponse(WithNeutralSentiment).ok
        /\ validated[1].ok => validated[1].dict.sentiment \in FeedbackSentiment

(***************************************************************************)
(* Properties of a run over several chunks (SpecRuns).                     *)
(***************************************************************************)
\* the requests of the run that have come back and whose results were taken
\* in: the batches main's loop has finished, or the chunks analyze_common_issues
\* has counted
RequestsFinished ==
    IF pc \in {"main", "main_awaiting", "main_done"}
    THEN main_i \div slider
    ELSE Cardinality({k \in 1..Len(chunk_log) : chunk_log[k].request_made})

\* C23: across a run over several chunks at most one LLM request is in flight:
\* a request is out only while the loop waits for it, and every request but
\* the last has come back and had its results taken in.
C23_OneRequestInFlight ==
    /\ in_flight \in {0, 1}
    /\ in_flight = 1 <=> pc \in {"main_awaiting", "analyze_awaiting"}
    /\ in_flight = Len(request_sizes) - RequestsFinished

\* C23 witness: the request of the second chunk of analyze_common_issues is out
\* and the first chunk has been counted.
C23_Witness ==
    /\ pc = "analyze_awaiting"
    /\ Len(request_sizes) = 2
    /\ Len(chunk_log) = 1
    /\ chunk_log[1].request_made
    /\ in_flight = 1

(***************************************************************************)
(* Properties of the saves and of the rows returned (Spec).                *)
(***************************************************************************)
\* every pair of the zip has had one save attempt, in input order, Error
\* placeholders of a failed classification included
OneSaveAttemptPerPair ==
    pc = "done" =>
        /\ Len(save_attempts) \in {0, ZipLen}
        /\ Len(save_attempts) = 0 =>
              \/ ZipLen = 0
              \/ \A i \in 1..Len(returned) : returned[i].category = "Error"
        /\ \A i \in 1..Len(save_attempts) : save_attempts[i].index = i

\* every returned row that is no Error row is in the table exactly once, by
\* the save attempt of its own pair
SavedOnceIfNotError ==
    pc = "done" =>
        \A i \in 1..Len(returned) :
            returned[i].category # "Error" =>
                /\ i <= Len(save_attempts)
                /\ save_attempts[i].outcome = "inserted"
                /\ Cardinality({j \in 1..Len(table) : table[j] = returned[i]}) = 1

\* the table holds the records of the save attempts that did not raise, and no
\* other: the record of a row degraded by a save failure is not in it
DegradedNeverWritten ==
    Len(table) = Cardinality({i \in 1..Len(save_attempts) : ~SaveRaised(i)})

\* C24: every (item, classifier result) pair triggers exactly one save attempt,
\* in input order, Error placeholders included; every returned row that is no
\* Error row corresponds to exactly one successful save of that record; a row
\* degraded by a save failure is never written.
C24_OneSavePerPair ==
    /\ OneSaveAttemptPerPair
    /\ SavedOnceIfNotError
    /\ DegradedNeverWritten

\* C25 as stated: when no exception escapes, the number of rows returned is
\* min(number of input rows, number of results the classifier returned).
C25_RowsAreMin ==
    pc = "done" =>
        Len(returned) = Min(Len(feedback_items), Len(processed_batch))

\* C25: when no exception escapes, the rows returned never exceed the input
\* rows.  When the classifier returned, they are the first min(input rows,
\* classifier results) pairs: surplus results are dropped and the input rows
\* beyond the result count are neither returned nor saved.  When the classifier
\* itself raised, one Error row per input row is returned and nothing is saved.
C25_RowsAreMinWhenClassified ==
    pc = "done" =>
        /\ Len(returned) <= Len(feedback_items)
        /\ \A i \in 1..Len(returned) :
              feedback_items[i].feedback = Some(returned[i].original_feedback)
        /\ IF Classified
           THEN /\ Len(returned) = Min(Len(feedback_items), Len(processed_batch))
                /\ Len(save_attempts) = Len(returned)
                /\ Len(table) <= Len(returned)
           ELSE /\ Len(returned) = Len(feedback_items)
                /\ \A i \in 1..Len(returned) : returned[i].category = "Error"
                /\ save_attempts = <<>>
                /\ table = <<>>

\* C25 witness: two rows went in, the classifier returned one result, and one
\* row came back; the second input row got no save attempt.
C25_Witness ==
    /\ pc = "done"
    /\ Classified
    /\ Len(feedback_items) = 2
    /\ Len(processed_batch) = 1
    /\ Len(returned) = 1
    /\ Len(save_attempts) = 1

(***************************************************************************)
(* Properties of the chunks of analyze_common_issues (SpecAnalyzeLive).    *)
(***************************************************************************)
RECURSIVE Flatten(_)
\* the concatenation of a sequence of sequences
Flatten(seqs) ==
    IF Len(seqs) = 0 THEN <<>>
    ELSE Flatten(SubSeq(seqs, 1, Len(seqs) - 1)) \o seqs[Len(seqs)]

\* for a list of N texts (str, the parameter's type): request k carries the
\* k-th contiguous slice of at most batch_size texts; once the call is over
\* there were ceil(N / batch_size) requests and every text went out once
ChunksAreSlices ==
    Serializable(all_feedbacks) =>
        /\ Len(sent_batches) = Len(request_sizes)
        /\ \A k \in 1..Len(sent_batches) :
              /\ sent_batches[k] =
                    SubSeq(all_feedbacks, (k - 1) * batch_size + 1,
                           Min(k * batch_size, Len(all_feedbacks)))
              /\ Len(sent_batches[k]) >= 1
              /\ Len(sent_batches[k]) <= batch_size
              /\ request_sizes[k] = Len(sent_batches[k])
        /\ pc = "analyzed" =>
              /\ Len(sent_batches) = ChunkCount
              /\ Flatten(sent_batches) = all_feedbacks

\* analyze_common_issues writes nothing to storage
NoStorageWrite == table = <<>> /\ save_attempts = <<>>

\* C26: for N texts and batch size B, analyze_common_issues issues exactly
\* ceil(N / B) LLM requests (none when N = 0), one per chunk; the chunks are
\* contiguous slices in input order of at most B texts, every text goes out in
\* exactly one chunk, the call terminates and writes nothing to storage.
C26_ChunkedOnce ==
    /\ [](ChunksAreSlices /\ NoStorageWrite)
    /\ <>(pc = "analyzed")

\* C26 witness: 11 texts were analysed with batch size 10 in two requests, of
\* 10 texts and of 1 text.
C26_Witness ==
    /\ pc = "analyzed"
    /\ Serializable(all_feedbacks)
    /\ Len(all_feedbacks) = 11
    /\ batch_size = 10
    /\ Len(sent_batches) = 2
    /\ Len(sent_batches[1]) = 10
    /\ sent_batches[2] = <<TextOf(11)>>

====
